---- MODULE Spec2Model ----
(***************************************************************************)
(* Model of the directory watcher of golang-elte-2020-public.              *)
(*                                                                         *)
(*   bounded watcher   : src/unnamed/part_000 (lines 59-202)               *)
(*   unbounded watcher : src/concurrency/ex7/watch.go (lines 1-139)        *)
(*                                                                         *)
(* HashAll is modelled as a dispatcher (the for loop of HashAll) and one   *)
(* worker goroutine per element of the file list, each statement of the    *)
(* goroutine being one step.  HashedEqual and CompareFileSets are pure     *)
(* operators, computed as the code computes them.                          *)
(***************************************************************************)
EXTENDS Integers, Sequences, FiniteSets, TLC

(***************************************************************************)
(* Bounds of the model.                                                    *)
(***************************************************************************)
\* Longest file list that Files() hands to HashAll.
MaxFiles == 3
\* Capacity of the channel sem.  The source makes it with capacity 100
\* (part_000:148); the model scales the capacity down so that file lists
\* longer than the capacity are explored, and every formula is stated in
\* terms of SemCap.
SemCap == 2
\* Length of a SHA-1 digest in the model (20 bytes in crypto/sha1).
DigestLen == 2

(***************************************************************************)
(* Values.                                                                 *)
(***************************************************************************)
\* The path strings of the model.
Paths == {"a", "b"}

\* The nil error.
NoErr == "nil"
\* Error of os.Open and error of io.Copy.
OpenErr == "ENOENT"
ReadErr == "EIO"
Errs == {OpenErr, ReadErr}

\* What Hash can find at a path: a file that cannot be opened, a file whose
\* read fails, or a readable file with the given contents.
Contents == {"", "abc"}
FileStates == {"unopenable", "unreadable"} \cup Contents

\* sha1.Sum of the contents, cut to DigestLen bytes (the leading bytes of
\* da39a3ee... for the empty input and of a9993e36... for "abc").
Sha1Full(c) == IF c = "" THEN <<218, 57, 163, 238>> ELSE <<169, 153, 62, 54>>
Sha1(c) == SubSeq(Sha1Full(c), 1, DigestLen)

\* type Hashed struct { Path; Hash; Err }, behind a pointer: ptr = FALSE is
\* the nil pointer.
NilHashed == [ptr |-> FALSE, Path |-> "", Hash |-> <<>>, Err |-> NoErr]
MkHashed(path, hash, err) == [ptr |-> TRUE, Path |-> path, Hash |-> hash, Err |-> err]

\* func Hash(path string) *Hashed, on a file found in state st.
\* (HashNoErrCheck: the faulty variant that drops the errors.)
HashNoErrCheck(path, st) == MkHashed(path, IF st \in Contents THEN Sha1(st) ELSE <<>>, NoErr)
Hash(path, st) ==
    IF st = "unopenable" THEN MkHashed(path, <<>>, OpenErr)
    ELSE IF st = "unreadable" THEN MkHashed(path, <<>>, ReadErr)
    ELSE MkHashed(path, Sha1(st), NoErr)

\* make(FileSet) and results[path] = hash.
EmptyFileSet == [p \in {} |-> NilHashed]
MapPut(m, p, h) == [q \in (DOMAIN m) \cup {p} |-> IF q = p THEN h ELSE m[q]]

\* The elements of a slice.
Range(s) == {s[k] : k \in DOMAIN s}

(***************************************************************************)
(* State.                                                                  *)
(***************************************************************************)
VARIABLES
    variant,   \* "bounded" (part_000) or "unbounded" (ex7/watch.go)
    fs,        \* the file system: fs[p] is what Hash finds at path p; it
               \* does not change while one call of HashAll runs
    files,     \* the list returned by Files()
    mainpc,    \* position of HashAll's own goroutine
    idx,       \* index of the element the for loop is at
    pc,        \* pc[w]: position of the goroutine launched for files[w]
    hashed,    \* hashed[w]: the goroutine's local variable hash / h
    sem,       \* number of elements buffered in the channel sem
    mu,        \* 0 when mu is unlocked, else the goroutine holding it
    wg,        \* counter of the wait group
    results,   \* the map results
    returned,  \* the FileSet HashAll returned (EmptyFileSet before)
    before,    \* first argument of CompareFileSets
    after,     \* second argument of CompareFileSets
    added,     \* the three results of CompareFileSets, as the slices built
    edited,
    deleted,
    cmppc,     \* "call" before CompareFileSets ran, "compared" after
    hb,        \* first argument of HashedEqual
    ha,        \* second argument of HashedEqual
    eq,        \* result of HashedEqual
    eqpc,      \* "call" before HashedEqual ran, "returned" after
    pollpc,    \* position of main in its poll loop
    prev,      \* main: prev
    curr,      \* main: curr
    cycle,     \* number of ticks main has taken from time.Tick
    out,       \* what the current iteration of the loop has printed
    calls,     \* number of calls of HashAll that main has made
    lastBuilt, \* the FileSet that the latest call of HashAll returned
    lastAtTick,\* the value of lastBuilt when the current iteration began
    fs0,       \* the file system when main made its first call of HashAll
    hung,      \* the goroutine of HashAll whose call of Hash never returns
               \* (a read that blocks for ever), 0 when there is none
    filesLen,  \* cksum: len(files)
    ckmain,    \* cksum: position of main
    ckidx,     \* cksum: index of the element the dispatch loop is at
    ckpc,      \* cksum: ckpc[w] is the position of the goroutine of file w
    ckmsg,     \* cksum: ckmsg[w] is the goroutine's (hash, err)
    guard,     \* cksum: number of elements buffered in the channel guard
    hashesQueu,\* cksum: the elements buffered in the channel hashesQueu
    received,  \* cksum: the variable i of the receive loop
    lines,     \* cksum: the lines printed, in order
    tree,      \* Files: tree[n] is the kind of entry n of the file system
    args,      \* Files: flag.Args(), the roots to walk
    walkpc,    \* Files: "call" before Files ran, "returned" after
    walked,    \* Files: the slice files it returned
    diags      \* Files: the paths of the ERROR lines it printed, in order

hashvars == <<variant, fs, files, mainpc, idx, pc, hashed, sem, mu, wg, results, returned>>
cmpvars == <<before, after, added, edited, deleted, cmppc>>
eqvars == <<hb, ha, eq, eqpc>>
pollvars == <<pollpc, prev, curr, cycle, out, calls, lastBuilt, lastAtTick, fs0>>
ckvars == <<filesLen, ckmain, ckidx, ckpc, ckmsg, guard, hashesQueu, received, lines>>
walkvars == <<tree, args, walkpc, walked, diags>>
othervars == <<ckvars, walkvars, hung>>
restvars == <<pollvars, othervars>>
vars == <<hashvars, cmpvars, eqvars, restvars>>

Workers == 1..Len(files)

\* The lists of at most n elements of S.
SeqsUpTo(S, n) == UNION {[1..k -> S] : k \in 0..n}

\* No comparison in progress.
CmpIdle ==
    /\ before = EmptyFileSet
    /\ after = EmptyFileSet
    /\ added = <<>>
    /\ edited = <<>>
    /\ deleted = <<>>
    /\ cmppc = "off"
EqIdle ==
    /\ hb = NilHashed
    /\ ha = NilHashed
    /\ eq = FALSE
    /\ eqpc = "off"

\* Nothing printed in the current iteration of the poll loop.
NoReport == [printed |-> FALSE, added |-> <<>>, edited |-> <<>>, deleted |-> <<>>]
\* main is not running.
PollIdle ==
    /\ pollpc = "off"
    /\ prev = EmptyFileSet
    /\ curr = EmptyFileSet
    /\ cycle = 0
    /\ out = NoReport
    /\ calls = 0
    /\ lastBuilt = EmptyFileSet
    /\ lastAtTick = EmptyFileSet
    /\ fs0 = [p \in Paths |-> "absent"]
\* cksum is not running.
CkIdle ==
    /\ filesLen = 0
    /\ ckmain = "off"
    /\ ckidx = 1
    /\ ckpc = <<>>
    /\ ckmsg = <<>>
    /\ guard = 0
    /\ hashesQueu = <<>>
    /\ received = 0
    /\ lines = <<>>
\* Files is not being called on its own.
WalkIdle ==
    /\ tree = <<>>
    /\ args = <<>>
    /\ walkpc = "off"
    /\ walked = <<>>
    /\ diags = <<>>
OtherIdle == CkIdle /\ WalkIdle
\* Every call of Hash returns.
NoneHung == hung = 0
RestIdle == PollIdle /\ OtherIdle /\ NoneHung

\* State at the entry of HashAll: results, mu, wg and sem freshly made.
Init ==
    /\ CmpIdle
    /\ EqIdle
    /\ RestIdle
    /\ variant \in {"bounded", "unbounded"}
    /\ fs \in [Paths -> FileStates]
    /\ files \in SeqsUpTo(Paths, MaxFiles)
    /\ idx = 1
    /\ mainpc = (IF 1 <= Len(files) THEN "add" ELSE "wait")
    /\ pc = [w \in 1..Len(files) |-> "idle"]
    /\ hashed = [w \in 1..Len(files) |-> NilHashed]
    /\ sem = 0
    /\ mu = 0
    /\ wg = 0
    /\ results = EmptyFileSet
    /\ returned = EmptyFileSet

(***************************************************************************)
(* The goroutine of HashAll.                                               *)
(***************************************************************************)
\* for _, path := range Files(): the position of the loop once it is at
\* element k of the list, the body's first statement or past the loop.
RangeAt(k) == IF k <= Len(files) THEN "add" ELSE "wait"

\* wg.Add(1)
WgAdd ==
    /\ mainpc = "add"
    /\ wg' = wg + 1
    /\ mainpc' = IF variant = "bounded" THEN "send" ELSE "go"
    /\ UNCHANGED <<variant, fs, files, idx, pc, hashed, sem, mu, results, returned, cmpvars, eqvars, restvars>>

\* sem <- struct{}{} : blocks while the buffer is full.
\* (SemSendUnbuffered: the faulty variant that never blocks.)
SemSendUnbuffered ==
    /\ mainpc = "send"
    /\ sem' = sem + 1
    /\ mainpc' = "go"
    /\ UNCHANGED <<variant, fs, files, idx, pc, hashed, mu, wg, results, returned, cmpvars, eqvars, restvars>>
SemSend ==
    /\ mainpc = "send"
    /\ sem < SemCap
    /\ sem' = sem + 1
    /\ mainpc' = "go"
    /\ UNCHANGED <<variant, fs, files, idx, pc, hashed, mu, wg, results, returned, cmpvars, eqvars, restvars>>

\* go func(path string) {...}(path), and the loop moves to the next element.
Go ==
    /\ mainpc = "go"
    /\ pc' = [pc EXCEPT ![idx] = "hash"]
    /\ idx' = idx + 1
    /\ mainpc' = RangeAt(idx + 1)
    /\ UNCHANGED <<variant, fs, files, hashed, sem, mu, wg, results, returned, cmpvars, eqvars, restvars>>

\* wg.Wait() and return results.
\* (WaitNoBarrier: the faulty variant that returns without wg.Wait().)
WaitNoBarrier ==
    /\ mainpc = "wait"
    /\ mainpc' = "done"
    /\ returned' = results
    /\ UNCHANGED <<variant, fs, files, idx, pc, hashed, sem, mu, wg, results, cmpvars, eqvars, restvars>>
Wait ==
    /\ mainpc = "wait"
    /\ wg = 0
    /\ mainpc' = "done"
    /\ returned' = results
    /\ UNCHANGED <<variant, fs, files, idx, pc, hashed, sem, mu, wg, results, cmpvars, eqvars, restvars>>

(***************************************************************************)
(* The goroutine launched for files[w].                                    *)
(***************************************************************************)
\* hash := Hash(path): returns, unless this is the call that never does.
\* (DoHashLoopVar: the faulty variant whose closure reads the loop's variable
\* instead of its own parameter.)
DoHashLoopVar(w) ==
    /\ pc[w] = "hash"
    /\ LET k == IF idx > Len(files) THEN Len(files) ELSE idx
       IN  hashed' = [hashed EXCEPT ![w] = Hash(files[k], fs[files[k]])]
    /\ pc' = [pc EXCEPT ![w] = "lock"]
    /\ UNCHANGED <<variant, fs, files, mainpc, idx, sem, mu, wg, results, returned, cmpvars, eqvars, restvars>>
DoHash(w) ==
    /\ pc[w] = "hash"
    /\ w # hung
    /\ hashed' = [hashed EXCEPT ![w] = Hash(files[w], fs[files[w]])]
    /\ pc' = [pc EXCEPT ![w] = "lock"]
    /\ UNCHANGED <<variant, fs, files, mainpc, idx, sem, mu, wg, results, returned, cmpvars, eqvars, restvars>>

\* mu.Lock()
\* (LockNoWait: the faulty variant that does not wait for the mutex.)
LockNoWait(w) ==
    /\ pc[w] = "lock"
    /\ mu' = w
    /\ pc' = [pc EXCEPT ![w] = "insert"]
    /\ UNCHANGED <<variant, fs, files, mainpc, idx, hashed, sem, wg, results, returned, cmpvars, eqvars, restvars>>
Lock(w) ==
    /\ pc[w] = "lock"
    /\ mu = 0
    /\ mu' = w
    /\ pc' = [pc EXCEPT ![w] = "insert"]
    /\ UNCHANGED <<variant, fs, files, mainpc, idx, hashed, sem, wg, results, returned, cmpvars, eqvars, restvars>>

\* results[path] = hash
Insert(w) ==
    /\ pc[w] = "insert"
    /\ results' = MapPut(results, files[w], hashed[w])
    /\ pc' = [pc EXCEPT ![w] = "unlock"]
    /\ UNCHANGED <<variant, fs, files, mainpc, idx, hashed, sem, mu, wg, returned, cmpvars, eqvars, restvars>>

\* deferred mu.Unlock(), the first deferred call to run.
Unlock(w) ==
    /\ pc[w] = "unlock"
    /\ mu' = 0
    /\ pc' = [pc EXCEPT ![w] = IF variant = "bounded" THEN "recv" ELSE "wgdone"]
    /\ UNCHANGED <<variant, fs, files, mainpc, idx, hashed, sem, wg, results, returned, cmpvars, eqvars, restvars>>

\* deferred func() { <-sem }(), the second deferred call to run.
\* (SemRecvNoReceive: the faulty variant that keeps its slot.)
SemRecvNoReceive(w) ==
    /\ pc[w] = "recv"
    /\ pc' = [pc EXCEPT ![w] = "wgdone"]
    /\ UNCHANGED <<variant, fs, files, mainpc, idx, hashed, sem, mu, wg, results, returned, cmpvars, eqvars, restvars>>
SemRecv(w) ==
    /\ pc[w] = "recv"
    /\ sem > 0
    /\ sem' = sem - 1
    /\ pc' = [pc EXCEPT ![w] = "wgdone"]
    /\ UNCHANGED <<variant, fs, files, mainpc, idx, hashed, mu, wg, results, returned, cmpvars, eqvars, restvars>>

\* deferred wg.Done(), the last deferred call to run; the goroutine ends
\* and its local variable is gone.
WgDone(w) ==
    /\ pc[w] = "wgdone"
    /\ wg' = wg - 1
    /\ pc' = [pc EXCEPT ![w] = "exit"]
    /\ hashed' = [hashed EXCEPT ![w] = NilHashed]
    /\ UNCHANGED <<variant, fs, files, mainpc, idx, sem, mu, results, returned, cmpvars, eqvars, restvars>>

Next ==
    \/ WgAdd
    \/ SemSend
    \/ Go
    \/ Wait
    \/ \E w \in Workers : DoHash(w)
    \/ \E w \in Workers : Lock(w)
    \/ \E w \in Workers : Insert(w)
    \/ \E w \in Workers : Unlock(w)
    \/ \E w \in Workers : SemRecv(w)
    \/ \E w \in Workers : WgDone(w)

Spec == Init /\ [][Next]_vars

\* The bounded HashAll alone, under fair scheduling: a step that stays
\* possible is eventually taken (a runnable goroutine eventually runs, and
\* Hash returns).
InitBounded == Init /\ variant = "bounded"
FairSpec == InitBounded /\ [][Next]_vars /\ WF_vars(Next)

(***************************************************************************)
(* Properties of HashAll.                                                  *)
(***************************************************************************)
\* The goroutines whose call of Hash is in flight.
InFlight == {w \in Workers : pc[w] = "hash"}

\* C1: in the bounded HashAll the number of Hash operations in flight at the
\* same time never exceeds the capacity of sem, whatever the length of the
\* file list and the interleaving.
C1_Ceiling == variant = "bounded" => Cardinality(InFlight) <= SemCap

\* The ceiling is reached with more files than slots: the dispatcher is
\* blocked on sem while SemCap calls of Hash are in flight.
C1_Witness ==
    /\ variant = "bounded"
    /\ Len(files) > SemCap
    /\ mainpc = "send"
    /\ Cardinality(InFlight) = SemCap

\* C2: when HashAll has returned, every goroutine it launched has stored its
\* result, has run to its end, the mutex is unlocked, every slot of sem is
\* free, and the map is what it was at the return.
C2_Barrier ==
    mainpc = "done" =>
        /\ \A w \in Workers : pc[w] = "exit" /\ files[w] \in DOMAIN results
        /\ mu = 0
        /\ sem = 0
        /\ results = returned

\* HashAll has returned from a list longer than the number of slots, with a
\* path that failed and a path that was hashed.
C2_Witness ==
    /\ mainpc = "done"
    /\ variant = "bounded"
    /\ Len(files) > SemCap
    /\ \E p, q \in DOMAIN returned :
          returned[p].Err # NoErr /\ returned[q].Err = NoErr

\* C3: in both variants at most one goroutine is between mu.Lock() and
\* mu.Unlock(), it is the one that holds mu, and mu is held by a goroutine
\* only at its insert or right after it, never while it hashes.
C3_MutualExclusion ==
    /\ Cardinality({w \in Workers : pc[w] \in {"insert", "unlock"}}) <= 1
    /\ \A w \in Workers : pc[w] \in {"insert", "unlock"} <=> mu = w

\* One goroutine is at its insert while another waits for the mutex and a
\* third is hashing.
C3_Witness ==
    \E u, v, w \in Workers :
        pc[u] = "insert" /\ mu = u /\ pc[v] = "lock" /\ pc[w] = "hash"

\* C4: under fair scheduling the bounded HashAll returns, for every file list
\* (also one longer than the number of slots).
C4_Returns == <>(mainpc = "done")

\* The bounded HashAll has returned from a list longer than the number of
\* slots.
C4_Witness == variant = "bounded" /\ Len(files) > SemCap /\ mainpc = "done"

\* A fingerprint as Hash builds it: non-nil, with either an error and no
\* digest, or no error and a digest of DigestLen bytes.
WellFormed(h) ==
    /\ h.ptr
    /\ \/ h.Err # NoErr /\ h.Hash = <<>>
       \/ h.Err = NoErr /\ Len(h.Hash) = DigestLen

\* C5: the returned map has exactly the distinct paths of the list as keys;
\* the value of a path is one fingerprint; a path whose file cannot be opened
\* or read has a fingerprint with an error and no digest, every other path a
\* fingerprint with the digest of its contents and no error.
C5_Snapshot ==
    mainpc = "done" =>
        /\ DOMAIN returned = Range(files)
        /\ \A p \in DOMAIN returned :
              /\ WellFormed(returned[p])
              /\ returned[p].Path = p
              /\ fs[p] \notin Contents =>
                    returned[p].Err # NoErr /\ returned[p].Hash = <<>>
              /\ fs[p] \in Contents =>
                    returned[p].Err = NoErr /\ returned[p].Hash = Sha1(fs[p])

\* HashAll has returned from a list in which a path occurs twice, one path
\* failed and the other was hashed.
C5_Witness ==
    /\ mainpc = "done"
    /\ \E i, j \in DOMAIN files : i # j /\ files[i] = files[j]
    /\ \E p, q \in DOMAIN returned :
          /\ fs[p] \notin Contents /\ returned[p].Err # NoErr
          /\ fs[q] \in Contents /\ returned[q].Hash = Sha1(fs[q])

(***************************************************************************)
(* HashedEqual.                                                            *)
(***************************************************************************)
\* for i := 0; i < len(before.Hash); i++ { if before.Hash[i] != after.Hash[i]
\* { return false } }; return true   -- from index i (1-based) on.
RECURSIVE BytesEqualFrom(_, _, _)
BytesEqualFrom(bhash, ahash, i) ==
    IF i > Len(bhash) THEN TRUE
    ELSE IF bhash[i] # ahash[i] THEN FALSE
    ELSE BytesEqualFrom(bhash, ahash, i + 1)

\* func HashedEqual(before, after *Hashed) bool
\* Faulty variants: HashedEqualNilUnequal returns false whenever a pointer is
\* nil, HashedEqualErrOfBefore returns be where the code returns be == ae,
\* HashedEqualFirstByte compares the first byte of the digests only,
\* HashedEqualSameErr takes two failures as equal only if the errors are.
HashedEqualSameErr(b, a) ==
    IF ~b.ptr \/ ~a.ptr THEN ~b.ptr /\ ~a.ptr
    ELSE IF b.Path # a.Path THEN FALSE
    ELSE IF b.Err # NoErr \/ a.Err # NoErr THEN b.Err = a.Err
    ELSE IF Len(b.Hash) # Len(a.Hash) THEN FALSE
    ELSE BytesEqualFrom(b.Hash, a.Hash, 1)
HashedEqualNilUnequal(b, a) ==
    IF ~b.ptr \/ ~a.ptr THEN FALSE
    ELSE IF b.Path # a.Path THEN FALSE
    ELSE IF b.Err # NoErr \/ a.Err # NoErr THEN (b.Err # NoErr) = (a.Err # NoErr)
    ELSE IF Len(b.Hash) # Len(a.Hash) THEN FALSE
    ELSE BytesEqualFrom(b.Hash, a.Hash, 1)
HashedEqualErrOfBefore(b, a) ==
    IF ~b.ptr \/ ~a.ptr THEN ~b.ptr /\ ~a.ptr
    ELSE IF b.Path # a.Path THEN FALSE
    ELSE IF b.Err # NoErr \/ a.Err # NoErr THEN b.Err # NoErr
    ELSE IF Len(b.Hash) # Len(a.Hash) THEN FALSE
    ELSE BytesEqualFrom(b.Hash, a.Hash, 1)
HashedEqualFirstByte(b, a) ==
    IF ~b.ptr \/ ~a.ptr THEN ~b.ptr /\ ~a.ptr
    ELSE IF b.Path # a.Path THEN FALSE
    ELSE IF b.Err # NoErr \/ a.Err # NoErr THEN (b.Err # NoErr) = (a.Err # NoErr)
    ELSE IF Len(b.Hash) # Len(a.Hash) THEN FALSE
    ELSE Len(b.Hash) = 0 \/ b.Hash[1] = a.Hash[1]
HashedEqual(b, a) ==
    IF ~b.ptr \/ ~a.ptr THEN ~b.ptr /\ ~a.ptr
    ELSE IF b.Path # a.Path THEN FALSE
    ELSE IF b.Err # NoErr \/ a.Err # NoErr THEN (b.Err # NoErr) = (a.Err # NoErr)
    ELSE IF Len(b.Hash) # Len(a.Hash) THEN FALSE
    ELSE BytesEqualFrom(b.Hash, a.Hash, 1)

(***************************************************************************)
(* CompareFileSets.  The order in which range visits a map is not          *)
(* specified, so each loop takes the order of its visit as an argument.    *)
(***************************************************************************)
\* The orders in which range can visit the keys of map m.
Orders(m) ==
    {o \in [1..Cardinality(DOMAIN m) -> DOMAIN m] :
        \A i, j \in DOMAIN o : i # j => o[i] # o[j]}

\* v, ok := m[p]: the zero value nil for a missing key.
MapGet(m, p) == IF p \in DOMAIN m THEN m[p] ELSE NilHashed

\* for bp, bh := range before { switch ah, has := after[bp]; {
\*   case !has: deleted = append(deleted, bp)
\*   case !HashedEqual(bh, ah): edited = append(edited, bp) } }
\* from position k of the visit on; acc holds edited and deleted so far.
\* (FirstLoopFallThrough: the faulty variant that tests both cases for
\* every key.)
RECURSIVE FirstLoopFallThrough(_, _, _, _, _)
FirstLoopFallThrough(b, a, order, k, acc) ==
    IF k > Len(order) THEN acc
    ELSE LET bp == order[k]
             has == bp \in DOMAIN a
             d == IF ~has THEN Append(acc.deleted, bp) ELSE acc.deleted
             e == IF ~HashedEqual(b[bp], MapGet(a, bp)) THEN Append(acc.edited, bp)
                  ELSE acc.edited
         IN FirstLoopFallThrough(b, a, order, k + 1, [edited |-> e, deleted |-> d])
RECURSIVE FirstLoop(_, _, _, _, _)
FirstLoop(b, a, order, k, acc) ==
    IF k > Len(order) THEN acc
    ELSE LET bp == order[k]
             has == bp \in DOMAIN a
             next == IF ~has
                       THEN [acc EXCEPT !.deleted = Append(acc.deleted, bp)]
                     ELSE IF ~HashedEqual(b[bp], MapGet(a, bp))
                       THEN [acc EXCEPT !.edited = Append(acc.edited, bp)]
                     ELSE acc
         IN FirstLoop(b, a, order, k + 1, next)

\* for ap := range after { if _, has := before[ap]; !has {
\*   added = append(added, ap) } }
\* (SecondLoopNoTest: the faulty variant that appends every key of after.)
RECURSIVE SecondLoopNoTest(_, _, _, _, _)
SecondLoopNoTest(b, a, order, k, acc) ==
    IF k > Len(order) THEN acc
    ELSE SecondLoopNoTest(b, a, order, k + 1, Append(acc, order[k]))
RECURSIVE SecondLoop(_, _, _, _, _)
SecondLoop(b, a, order, k, acc) ==
    IF k > Len(order) THEN acc
    ELSE LET ap == order[k]
         IN SecondLoop(b, a, order, k + 1,
                       IF ap \notin DOMAIN b THEN Append(acc, ap) ELSE acc)

\* func CompareFileSets(before, after FileSet) (added, edited, deleted []string),
\* range visiting before in the order border and after in the order aorder.
CompareFileSets(b, a, border, aorder) ==
    LET first == FirstLoop(b, a, border, 1, [edited |-> <<>>, deleted |-> <<>>])
    IN [added |-> SecondLoop(b, a, aorder, 1, <<>>),
        edited |-> first.edited,
        deleted |-> first.deleted]

(***************************************************************************)
(* Calls of the two pure functions on arguments drawn from bounded sets.   *)
(***************************************************************************)
\* A digest that agrees with sha1 of the empty input except in its last byte.
AltDigest == [Sha1("") EXCEPT ![DigestLen] = 0]
HashValues == {<<>>, <<218>>, AltDigest} \cup {Sha1(c) : c \in Contents}

\* Every *Hashed of the model: nil, and every combination of the fields.
HashedValues ==
    {NilHashed} \cup
    {MkHashed(p, h, e) : p \in Paths, h \in HashValues, e \in {NoErr} \cup Errs}

HashAllIdle ==
    /\ variant = "bounded"
    /\ fs = [p \in Paths |-> "unopenable"]
    /\ files = <<>>
    /\ mainpc = "off"
    /\ idx = 1
    /\ pc = <<>>
    /\ hashed = <<>>
    /\ sem = 0
    /\ mu = 0
    /\ wg = 0
    /\ results = EmptyFileSet
    /\ returned = EmptyFileSet

InitEq ==
    /\ HashAllIdle
    /\ CmpIdle
    /\ RestIdle
    /\ hb \in HashedValues
    /\ ha \in HashedValues
    /\ eq = FALSE
    /\ eqpc = "call"

\* eq := HashedEqual(hb, ha)
CallHashedEqual ==
    /\ eqpc = "call"
    /\ eq' = HashedEqual(hb, ha)
    /\ eqpc' = "returned"
    /\ UNCHANGED <<hb, ha, hashvars, cmpvars, restvars>>

NextEq == CallHashedEqual

SpecEq == InitEq /\ [][NextEq]_vars

\* The paths and the values of the file sets that are compared: under key p
\* a nil pointer, a digest, a failure, or a Hashed of another path.  The
\* third path takes digests only, which keeps the number of pairs of file
\* sets small.
CmpPaths == Paths \cup {"c"}
CmpValues(p) ==
    IF p \in Paths
      THEN {NilHashed} \cup
           {MkHashed(p, Sha1(c), NoErr) : c \in Contents} \cup
           {MkHashed(p, <<>>, e) : e \in Errs} \cup
           {MkHashed("other", Sha1(""), NoErr)}
      ELSE {MkHashed(p, Sha1(c), NoErr) : c \in Contents}
FileSets ==
    UNION {{m \in [D -> UNION {CmpValues(p) : p \in D}] :
                \A p \in D : m[p] \in CmpValues(p)} : D \in SUBSET CmpPaths}

InitCmp ==
    /\ HashAllIdle
    /\ EqIdle
    /\ RestIdle
    /\ before \in FileSets
    /\ after \in FileSets
    /\ added = <<>>
    /\ edited = <<>>
    /\ deleted = <<>>
    /\ cmppc = "call"

\* added, edited, deleted := CompareFileSets(before, after)
CallCompareFileSets ==
    /\ cmppc = "call"
    /\ \E border \in Orders(before), aorder \in Orders(after) :
          LET r == CompareFileSets(before, after, border, aorder)
          IN /\ added' = r.added
             /\ edited' = r.edited
             /\ deleted' = r.deleted
    /\ cmppc' = "compared"
    /\ UNCHANGED <<before, after, hashvars, eqvars, restvars>>

NextCmp == CallCompareFileSets

SpecCmp == InitCmp /\ [][NextCmp]_vars

(***************************************************************************)
(* Properties of CompareFileSets and HashedEqual.                          *)
(***************************************************************************)
\* The paths that are keys of both file sets.
Common == DOMAIN before \cap DOMAIN after
\* No element occurs twice in the sequence.
NoRepeat(sq) == Cardinality(Range(sq)) = Len(sq)

\* C6: as sets, Deleted is the keys of before that are not keys of after,
\* Added the keys of after that are not keys of before, and Edited the keys
\* of both whose two fingerprints are not equal under HashedEqual.
C6_Classification ==
    cmppc = "compared" =>
        /\ Range(deleted) = DOMAIN before \ DOMAIN after
        /\ Range(added) = DOMAIN after \ DOMAIN before
        /\ Range(edited) = {p \in Common : ~HashedEqual(before[p], after[p])}

\* A comparison with an added path, an edited path and a path that is in
\* both file sets with equal fingerprints.
C6_Witness ==
    /\ cmppc = "compared"
    /\ added # <<>>
    /\ edited # <<>>
    /\ \E p \in Common : HashedEqual(before[p], after[p])

\* C7: the three results are pairwise disjoint, none holds a path twice, and
\* together they hold exactly the keys of either file set except the paths
\* that are in both with equal fingerprints.
C7_Partition ==
    cmppc = "compared" =>
        /\ Range(added) \cap Range(edited) = {}
        /\ Range(added) \cap Range(deleted) = {}
        /\ Range(edited) \cap Range(deleted) = {}
        /\ NoRepeat(added) /\ NoRepeat(edited) /\ NoRepeat(deleted)
        /\ Range(added) \cup Range(edited) \cup Range(deleted) =
              (DOMAIN before \cup DOMAIN after) \
                  {p \in Common : HashedEqual(before[p], after[p])}

\* A comparison in which each of the three results holds a path.
C7_Witness ==
    /\ cmppc = "compared"
    /\ added # <<>>
    /\ edited # <<>>
    /\ deleted # <<>>

\* C8: comparing a file set with itself gives three empty results, also when
\* it holds failed fingerprints and nil pointers.
C8_SelfCompare ==
    (cmppc = "compared" /\ before = after) =>
        added = <<>> /\ edited = <<>> /\ deleted = <<>>

\* A file set with a nil pointer and a failed fingerprint has been compared
\* with itself.
C8_Witness ==
    /\ cmppc = "compared"
    /\ before = after
    /\ \E p, q \in DOMAIN before : ~before[p].ptr /\ before[q].Err # NoErr

\* C9: with the two arguments swapped, Deleted and Added change places and
\* Edited stays the same, as sets, in whatever order range visits the maps.
C9_Symmetry ==
    cmppc = "compared" =>
        \A border \in Orders(after), aorder \in Orders(before) :
            LET r == CompareFileSets(after, before, border, aorder)
            IN /\ Range(deleted) = Range(r.added)
               /\ Range(added) = Range(r.deleted)
               /\ Range(edited) = Range(r.edited)

\* A comparison with a deleted path and an edited path that failed in
\* exactly one of the two file sets.
C9_Witness ==
    /\ cmppc = "compared"
    /\ deleted # <<>>
    /\ \E p \in Range(edited) :
          before[p].ptr /\ after[p].ptr /\
          (before[p].Err # NoErr) # (after[p].Err # NoErr)

\* (a) both fingerprints are non-failed with identical digests; (b) both are
\* failed.
BothDigestsIdentical(b, a) == b.Err = NoErr /\ a.Err = NoErr /\ b.Hash = a.Hash
BothFailed(b, a) == b.Err # NoErr /\ a.Err # NoErr

\* C10 as stated: HashedEqual is true iff (a) or (b) holds of the two
\* fingerprints, and two nil pointers are equal.
C10_AsStated ==
    eqpc = "returned" =>
        (eq <=> IF ~hb.ptr \/ ~ha.ptr THEN ~hb.ptr /\ ~ha.ptr
                ELSE BothDigestsIdentical(hb, ha) \/ BothFailed(hb, ha))

\* C10: HashedEqual is true iff both pointers are nil, or neither is nil, the
\* two fingerprints have the same Path, and (a) or (b) holds of them.
C10_SamePath ==
    eqpc = "returned" =>
        (eq <=> \/ ~hb.ptr /\ ~ha.ptr
                \/ /\ hb.ptr /\ ha.ptr
                   /\ hb.Path = ha.Path
                   /\ BothDigestsIdentical(hb, ha) \/ BothFailed(hb, ha))

\* HashedEqual has returned false for two non-failed fingerprints of
\* different paths with identical digests.
C10_Witness ==
    /\ eqpc = "returned"
    /\ hb.ptr /\ ha.ptr
    /\ hb.Path # ha.Path
    /\ BothDigestsIdentical(hb, ha)
    /\ Len(hb.Hash) = DigestLen
    /\ ~eq

\* p is a key of both file sets and its two values are fingerprints of p, as
\* HashAll stores them: non-nil, with p as their Path.
FingerprintsOf(p) ==
    /\ p \in Common
    /\ before[p].ptr /\ before[p].Path = p
    /\ after[p].ptr /\ after[p].Path = p

\* C11: a path of both file sets whose fingerprint is failed on one side only
\* is in Edited and neither in Added nor in Deleted; a path whose fingerprint
\* is failed on both sides, with equal or different errors, is in none of
\* the three results.
C11_FailedTransitions ==
    cmppc = "compared" =>
        \A p \in Common :
            FingerprintsOf(p) =>
                /\ (before[p].Err # NoErr) # (after[p].Err # NoErr) =>
                      /\ p \in Range(edited)
                      /\ p \notin Range(added) \cup Range(deleted)
                /\ (before[p].Err # NoErr /\ after[p].Err # NoErr) =>
                      p \notin Range(added) \cup Range(edited) \cup Range(deleted)

\* A comparison with a path that failed on both sides with different errors
\* and a path that failed on one side only.
C11_Witness ==
    /\ cmppc = "compared"
    /\ \E p, q \in Common :
          /\ FingerprintsOf(p) /\ FingerprintsOf(q)
          /\ before[p].Err # NoErr /\ after[p].Err # NoErr
          /\ before[p].Err # after[p].Err
          /\ before[q].Err = NoErr /\ after[q].Err # NoErr

(***************************************************************************)
(* main: the poll loop.  A call of HashAll is one step here; it returns     *)
(* Snapshot(files, fs), which is what the goroutines of HashAll leave in    *)
(* the map (C5, C18).  Files() walks one directory that holds the paths of  *)
(* the model; a path whose state is "absent" is not in the directory.       *)
(***************************************************************************)
\* Longest run of the poll loop, in ticks.
MaxCycles == 3

\* What a path can be between two scans.
PollStates == FileStates \cup {"absent"}

\* Files(), on a directory with the files f: the paths that exist, in the
\* lexical order in which filepath.Walk visits them.
PathOrder == <<"a", "b">>
ListFiles(f) == SelectSeq(PathOrder, LAMBDA p : f[p] # "absent")

\* The map HashAll returns for the list fl and the files f.
Snapshot(fl, f) == [p \in Range(fl) |-> Hash(p, f[p])]

\* The variables of HashAll that main's model leaves alone.
hashrest == <<variant, mainpc, idx, pc, hashed, sem, mu, wg, results, returned>>

InitPoll ==
    /\ variant = "bounded"
    /\ fs \in [Paths -> PollStates]
    /\ files = <<>>
    /\ mainpc = "off"
    /\ idx = 1
    /\ pc = <<>>
    /\ hashed = <<>>
    /\ sem = 0
    /\ mu = 0
    /\ wg = 0
    /\ results = EmptyFileSet
    /\ returned = EmptyFileSet
    /\ CmpIdle
    /\ EqIdle
    /\ pollpc = "start"
    /\ prev = EmptyFileSet
    /\ curr = EmptyFileSet
    /\ cycle = 0
    /\ out = NoReport
    /\ calls = 0
    /\ lastBuilt = EmptyFileSet
    /\ lastAtTick = EmptyFileSet
    /\ fs0 = fs
    /\ OtherIdle
    /\ NoneHung

\* prev := HashAll()
\* (StartupEmpty: the faulty variant that starts from an empty map.)
StartupEmpty ==
    /\ pollpc = "start"
    /\ prev' = EmptyFileSet
    /\ pollpc' = "tick"
    /\ UNCHANGED <<fs, files, hashrest, cmpvars, eqvars, curr, cycle, out, calls, lastBuilt, lastAtTick, fs0, othervars>>
Startup ==
    /\ pollpc = "start"
    /\ files' = ListFiles(fs)
    /\ prev' = Snapshot(files', fs)
    /\ lastBuilt' = prev'
    /\ calls' = calls + 1
    /\ pollpc' = "tick"
    /\ UNCHANGED <<fs, hashrest, cmpvars, eqvars, curr, cycle, out, lastAtTick, fs0, othervars>>

\* Another process creates, changes or removes a file while main waits for
\* the next tick.
Modify(p, st) ==
    /\ pollpc = "tick"
    /\ fs[p] # st
    /\ fs' = [fs EXCEPT ![p] = st]
    /\ UNCHANGED <<files, hashrest, cmpvars, eqvars, pollvars, othervars>>

\* for ts := range time.Tick(time.Second) { curr := HashAll()
Tick ==
    /\ pollpc = "tick"
    /\ cycle < MaxCycles
    /\ cycle' = cycle + 1
    /\ files' = ListFiles(fs)
    /\ curr' = Snapshot(files', fs)
    /\ lastAtTick' = lastBuilt
    /\ lastBuilt' = curr'
    /\ calls' = calls + 1
    /\ pollpc' = "compare"
    /\ UNCHANGED <<fs, hashrest, cmpvars, eqvars, prev, out, fs0, othervars>>

\* added, edited, deleted := CompareFileSets(prev, curr)
Compare ==
    /\ pollpc = "compare"
    /\ before' = prev
    /\ after' = curr
    /\ \E border \in Orders(prev), aorder \in Orders(curr) :
          LET r == CompareFileSets(prev, curr, border, aorder)
          IN /\ added' = r.added
             /\ edited' = r.edited
             /\ deleted' = r.deleted
    /\ cmppc' = "compared"
    /\ pollpc' = "assign"
    /\ UNCHANGED <<fs, files, hashrest, eqvars, prev, curr, cycle, out, calls, lastBuilt, lastAtTick, fs0, othervars>>

\* prev = curr
\* (AssignSkipped: the faulty variant that keeps the old prev.)
AssignSkipped ==
    /\ pollpc = "assign"
    /\ pollpc' = "report"
    /\ UNCHANGED <<fs, files, hashrest, cmpvars, eqvars, prev, curr, cycle, out, calls, lastBuilt, lastAtTick, fs0, othervars>>
Assign ==
    /\ pollpc = "assign"
    /\ prev' = curr
    /\ pollpc' = "report"
    /\ UNCHANGED <<fs, files, hashrest, cmpvars, eqvars, curr, cycle, out, calls, lastBuilt, lastAtTick, fs0, othervars>>

\* if len(added)+len(edited)+len(deleted) > 0 { fmt.Printf(...) ... }
\* (ReportAddedOnly: the faulty variant that tests len(added) alone.)
ReportAddedOnly ==
    /\ pollpc = "report"
    /\ out' = IF Len(added) > 0
                THEN [printed |-> TRUE, added |-> added, edited |-> edited,
                      deleted |-> deleted]
              ELSE NoReport
    /\ pollpc' = "end"
    /\ UNCHANGED <<fs, files, hashrest, cmpvars, eqvars, prev, curr, cycle, calls, lastBuilt, lastAtTick, fs0, othervars>>
Report ==
    /\ pollpc = "report"
    /\ out' = IF Len(added) + Len(edited) + Len(deleted) > 0
                THEN [printed |-> TRUE, added |-> added, edited |-> edited,
                      deleted |-> deleted]
              ELSE NoReport
    /\ pollpc' = "end"
    /\ UNCHANGED <<fs, files, hashrest, cmpvars, eqvars, prev, curr, cycle, calls, lastBuilt, lastAtTick, fs0, othervars>>

\* } : the iteration ends and its variables curr, added, edited and deleted
\* are gone.
EndIteration ==
    /\ pollpc = "end"
    /\ curr' = EmptyFileSet
    /\ before' = EmptyFileSet
    /\ after' = EmptyFileSet
    /\ added' = <<>>
    /\ edited' = <<>>
    /\ deleted' = <<>>
    /\ cmppc' = "off"
    /\ out' = NoReport
    /\ lastAtTick' = EmptyFileSet
    /\ pollpc' = "tick"
    /\ UNCHANGED <<fs, files, hashrest, eqvars, prev, cycle, calls, lastBuilt, fs0, othervars>>

NextPoll ==
    \/ Startup
    \/ \E p \in Paths, st \in PollStates : Modify(p, st)
    \/ Tick
    \/ Compare
    \/ Assign
    \/ Report
    \/ EndIteration

SpecPoll == InitPoll /\ [][NextPoll]_vars

(***************************************************************************)
(* Properties of the poll loop.                                            *)
(***************************************************************************)
\* The current iteration has compared and not yet ended.
Compared == pollpc \in {"assign", "report", "end"}

\* C12: every comparison is between the FileSet returned by the call of
\* HashAll before the latest one and the FileSet returned by the latest one
\* (the first of all calls being the one at startup); prev is replaced by the
\* new FileSet in every iteration, printed or not; and an iteration prints
\* iff one of added, edited, deleted is not empty.
C12_ConsecutiveSnapshots ==
    /\ Compared => before = lastAtTick /\ after = lastBuilt /\ calls = cycle + 1
    /\ pollpc \in {"report", "end", "tick"} => prev = lastBuilt
    /\ pollpc = "end" =>
          (out.printed <=> (added # <<>> \/ edited # <<>> \/ deleted # <<>>))

\* An iteration after the first that found nothing to print has replaced
\* prev by a FileSet that is not the one it held.
C12_Witness ==
    /\ pollpc = "end"
    /\ cycle >= 2
    /\ ~out.printed
    /\ before # after
    /\ prev = after

\* C13 as stated: the before of the first comparison is the empty map.
C13_AsStated == (Compared /\ cycle = 1) => before = EmptyFileSet

\* C13: the before of the first comparison is the FileSet that HashAll
\* returned at startup, the fingerprints of the files that existed then; it
\* is the second call of HashAll that builds the after.
C13_StartupBaseline ==
    (Compared /\ cycle = 1) =>
        /\ calls = 2
        /\ DOMAIN before = {p \in Paths : fs0[p] # "absent"}
        /\ \A p \in DOMAIN before : before[p] = Hash(p, fs0[p])

\* The first comparison has a before that is not empty, and an after that
\* differs from it.
C13_Witness ==
    /\ Compared
    /\ cycle = 1
    /\ before # EmptyFileSet
    /\ before # after

\* C19: every value of the FileSets main holds is a non-nil fingerprint with
\* its key as Path and with an error or a digest, not both; so an edited path
\* has two non-nil fingerprints of the same Path, and differs in being failed
\* or in its digest.
AsHashAllStores(m) ==
    \A p \in DOMAIN m :
        /\ m[p].ptr
        /\ m[p].Path = p
        /\ (m[p].Err # NoErr) # (m[p].Hash # <<>>)
C19_SnapshotValues ==
    /\ AsHashAllStores(prev)
    /\ AsHashAllStores(curr)
    /\ Compared =>
          /\ AsHashAllStores(before) /\ AsHashAllStores(after)
          /\ \A p \in Range(edited) :
                \/ (before[p].Err # NoErr) # (after[p].Err # NoErr)
                \/ /\ before[p].Err = NoErr /\ after[p].Err = NoErr
                   /\ before[p].Hash # after[p].Hash

\* An iteration has found a path edited whose before is failed, next to a
\* path that is failed in both.
C19_Witness ==
    /\ Compared
    /\ \E p \in Range(edited) : before[p].Err # NoErr
    /\ \E q \in Common : before[q].Err # NoErr /\ after[q].Err # NoErr

\* Path p differs between FileSets m and n: it is a key of one only, or it is
\* failed in one only, or its two digests differ.
Differs(m, n, p) ==
    \/ (p \in DOMAIN m) # (p \in DOMAIN n)
    \/ /\ p \in DOMAIN m /\ p \in DOMAIN n
       /\ \/ (m[p].Err # NoErr) # (n[p].Err # NoErr)
          \/ m[p].Err = NoErr /\ n[p].Err = NoErr /\ m[p].Hash # n[p].Hash
\* The number of times the sequence holds p.
Occurrences(sq, p) == Cardinality({k \in DOMAIN sq : sq[k] = p})

\* C20: an iteration prints a path iff the path differs between the FileSet
\* of the previous scan and the FileSet of this scan, and prints it once; so a
\* change is printed in the iteration that first sees it and in no later one
\* while the path stays as it is, and a path that never changes is never
\* printed.
C20_ReportedOnce ==
    pollpc = "end" =>
        \A p \in Paths :
            Occurrences(out.added, p) + Occurrences(out.edited, p)
              + Occurrences(out.deleted, p)
            = IF Differs(lastAtTick, lastBuilt, p) THEN 1 ELSE 0

\* The third iteration has printed nothing after the second printed a change
\* made since the first: the startup FileSet and the current one differ.
C20_Witness ==
    /\ pollpc = "end"
    /\ cycle = 3
    /\ ~out.printed
    /\ lastBuilt # EmptyFileSet
    /\ \E p \in Paths : fs0[p] # fs[p] /\ fs[p] \in Contents /\ fs0[p] \in Contents

(***************************************************************************)
(* Goroutines of HashAll.                                                  *)
(***************************************************************************)
\* The goroutines HashAll has launched that have not finished: a goroutine
\* finishes when its last deferred call, wg.Done(), has run.
Live == {w \in Workers : pc[w] \notin {"idle", "exit"}}

\* C14 as stated: in the bounded HashAll the number of goroutines launched
\* and not yet finished never exceeds the capacity of sem.
C14_AsStated == variant = "bounded" => Cardinality(Live) <= SemCap

(***************************************************************************)
(* The two variants of HashAll.                                            *)
(***************************************************************************)
\* The list has no path twice.
Distinct(fl) == \A j, k \in DOMAIN fl : fl[j] = fl[k] => j = k

GuardCap == 2
QueueCap == 2
MaxCkFiles == 6

CkWorkers == 1..filesLen

\* Position of main when the dispatch loop is at element k: the body's first
\* statement, or the receive loop, whose position after i receptions is the
\* receive or the end of main.
RecvAt(i) == IF i < filesLen THEN "recv" ELSE "done"
DispatchAt(k) == IF k <= filesLen THEN "guard" ELSE RecvAt(0)

\* hashesQueu, guard made; files := Files(); filesLen := len(files).
InitCk ==
    /\ HashAllIdle
    /\ CmpIdle
    /\ EqIdle
    /\ PollIdle
    /\ WalkIdle
    /\ NoneHung
    /\ filesLen \in 0..MaxCkFiles
    /\ ckidx = 1
    /\ ckmain = DispatchAt(1)
    /\ ckpc = [w \in 1..filesLen |-> "idle"]
    /\ ckmsg = [w \in 1..filesLen |-> NoErr]
    /\ guard = 0
    /\ hashesQueu = <<>>
    /\ received = 0
    /\ lines = <<>>

ckrest == <<hashvars, cmpvars, eqvars, pollvars, walkvars, hung, filesLen>>

\* guard <- struct{}{} : blocks while the buffer is full.
GuardSend ==
    /\ ckmain = "guard"
    /\ guard < GuardCap
    /\ guard' = guard + 1
    /\ ckmain' = "go"
    /\ UNCHANGED <<ckrest, ckidx, ckpc, ckmsg, hashesQueu, received, lines>>

\* go func(p string) {...}(path), and the loop moves to the next element.
CkGo ==
    /\ ckmain = "go"
    /\ ckpc' = [ckpc EXCEPT ![ckidx] = "hash"]
    /\ ckidx' = ckidx + 1
    /\ ckmain' = DispatchAt(ckidx + 1)
    /\ UNCHANGED <<ckrest, ckmsg, guard, hashesQueu, received, lines>>

\* hash, err := Hash(p): the file can be hashed or not.
CkHash(w) ==
    /\ ckpc[w] = "hash"
    /\ \E e \in {NoErr, OpenErr} : ckmsg' = [ckmsg EXCEPT ![w] = e]
    /\ ckpc' = [ckpc EXCEPT ![w] = "send"]
    /\ UNCHANGED <<ckrest, ckmain, ckidx, guard, hashesQueu, received, lines>>

\* hashesQueu <- Hashes{path: p, hash: hash, err: err} : blocks while the
\* buffer is full.
QueueSend(w) ==
    /\ ckpc[w] = "send"
    /\ Len(hashesQueu) < QueueCap
    /\ hashesQueu' = Append(hashesQueu, [path |-> w, err |-> ckmsg[w]])
    /\ ckpc' = [ckpc EXCEPT ![w] = "release"]
    /\ UNCHANGED <<ckrest, ckmain, ckidx, ckmsg, guard, received, lines>>

\* <-guard, the goroutine's last statement.
GuardRecv(w) ==
    /\ ckpc[w] = "release"
    /\ guard > 0
    /\ guard' = guard - 1
    /\ ckpc' = [ckpc EXCEPT ![w] = "exit"]
    /\ UNCHANGED <<ckrest, ckmain, ckidx, ckmsg, hashesQueu, received, lines>>

\* evHash := <-hashesQueu, and the line printed for it: the error or the
\* digest with the path.
QueueRecv ==
    /\ ckmain = "recv"
    /\ hashesQueu # <<>>
    /\ hashesQueu' = Tail(hashesQueu)
    /\ lines' = Append(lines, Head(hashesQueu))
    /\ received' = received + 1
    /\ ckmain' = RecvAt(received + 1)
    /\ UNCHANGED <<ckrest, ckidx, ckpc, ckmsg, guard>>

NextCk ==
    \/ GuardSend
    \/ CkGo
    \/ \E w \in CkWorkers : CkHash(w)
    \/ \E w \in CkWorkers : QueueSend(w)
    \/ \E w \in CkWorkers : GuardRecv(w)
    \/ QueueRecv
SpecCk == InitCk /\ [][NextCk]_vars

\* C16 as stated, the reachable states: main is never blocked sending on a
\* full guard while every goroutine that holds a slot of guard is blocked
\* sending on a full hashesQueu.
C16_AsStated ==
    ~ /\ ckmain = "guard"
      /\ guard = GuardCap
      /\ Len(hashesQueu) = QueueCap
      /\ \A w \in CkWorkers : ckpc[w] \in {"idle", "send", "exit"}

(***************************************************************************)
(* The bounded HashAll when one call of Hash never returns.                *)
(***************************************************************************)
\* As InitBounded, but the read of one goroutine (or of none) blocks for
\* ever; every other file is read to its end or fails to be read.
InitHung ==
    /\ CmpIdle
    /\ EqIdle
    /\ PollIdle
    /\ OtherIdle
    /\ variant = "bounded"
    /\ fs \in [Paths -> {"unreadable", "abc"}]
    /\ files \in SeqsUpTo(Paths, MaxFiles)
    /\ hung \in 0..Len(files)
    /\ idx = 1
    /\ mainpc = RangeAt(1)
    /\ pc = [w \in 1..Len(files) |-> "idle"]
    /\ hashed = [w \in 1..Len(files) |-> NilHashed]
    /\ sem = 0
    /\ mu = 0
    /\ wg = 0
    /\ results = EmptyFileSet
    /\ returned = EmptyFileSet
FairSpecHung == InitHung /\ [][Next]_vars /\ WF_vars(Next)

\* C17: when the call of Hash of one goroutine never returns, HashAll never
\* returns, that goroutine keeps one slot of sem, at most SemCap - 1 other
\* calls of Hash are in flight with it, and every other goroutine is
\* eventually launched, hashes its path, records it in results and finishes.
C17_OneSlotStalled ==
    /\ [](hung # 0 => mainpc # "done")
    /\ []((hung # 0 /\ pc[hung] = "hash") =>
             Cardinality(InFlight \ {hung}) <= SemCap - 1)
    /\ <>[](\A w \in Workers :
               IF w = hung
               THEN pc[w] = "hash"
               ELSE /\ pc[w] = "exit"
                    /\ files[w] \in DOMAIN results
                    /\ results[files[w]] = Hash(files[w], fs[files[w]]))

\* The first goroutine hangs in Hash, and more goroutines than sem has
\* slots have been launched after it and have finished, their paths
\* recorded, while HashAll waits.
C17_Witness ==
    /\ hung = 1
    /\ pc[hung] = "hash"
    /\ Len(files) > SemCap
    /\ \A w \in Workers \ {hung} : pc[w] = "exit" /\ files[w] \in DOMAIN results
    /\ mainpc = "wait"
    /\ wg = 1

(***************************************************************************)
(* Files: filepath.Walk over every command line argument, with the         *)
(* WalkFunc that collects the regular files.                               *)
(***************************************************************************)
\* The largest number of command line arguments.
MaxRoots == 2

\* The entries of the file system: entry 1 is a directory tree with the
\* children 2..6, entry 5 has the child 7. An entry's children exist only
\* when the entry is a directory. Children are in lexical order, the order
\* in which Walk visits them.
Entries == 1..7
ChildrenOf(n) == IF n = 1 THEN <<2, 3, 4, 5, 6>> ELSE IF n = 5 THEN <<7>> ELSE <<>>
ParentOf(n) == IF n \in 2..6 THEN 1 ELSE IF n = 7 THEN 5 ELSE 0
\* The entries that can be given as arguments.
RootEntries == {1, 5}

\* What an entry is: a regular file; a directory whose names can be read; a
\* directory whose names cannot be read; an entry with a bit of os.ModeType
\* other than ModeDir set (symlink, device, pipe, socket); an entry on which
\* Lstat fails.
Kinds == {"file", "dir", "dirnoread", "special", "nolstat"}
LstatFails(k) == k = "nolstat"
IsDir(k) == k \in {"dir", "dirnoread"}
ReadDirNamesFails(k) == k = "dirnoread"
\* info.Mode()&os.ModeType != 0
HasModeType(k) == k # "file"

\* The calls of the WalkFunc that filepath.Walk makes from entry n on which
\* Lstat succeeded, in order: each is the path and whether err is non-nil.
\* The WalkFunc of Files always returns nil, so Walk never stops early nor
\* skips a directory that it can read.
RECURSIVE walk(_, _)
RECURSIVE walkNames(_, _)
walkNames(names, t) ==
    IF names = <<>> THEN <<>>
    ELSE LET c == Head(names)
         IN  (IF LstatFails(t[c]) THEN <<[path |-> c, err |-> TRUE]>> ELSE walk(c, t))
             \o walkNames(Tail(names), t)
walk(n, t) ==
    IF ~IsDir(t[n]) THEN <<[path |-> n, err |-> FALSE]>>
    ELSE IF ReadDirNamesFails(t[n]) THEN <<[path |-> n, err |-> TRUE]>>
    ELSE <<[path |-> n, err |-> FALSE]>> \o walkNames(ChildrenOf(n), t)
Walk(root, t) ==
    IF LstatFails(t[root]) THEN <<[path |-> root, err |-> TRUE]>> ELSE walk(root, t)

\* The WalkFunc of Files, applied to the state st = (files, diags).
\* (WalkFuncNoModeTest: the faulty variant without the test of the mode.)
WalkFuncNoModeTest(st, call, t) ==
    IF call.err THEN [st EXCEPT !.diags = Append(@, call.path)]
    ELSE [st EXCEPT !.files = Append(@, call.path)]
WalkFunc(st, call, t) ==
    IF call.err THEN [st EXCEPT !.diags = Append(@, call.path)]
    ELSE IF HasModeType(t[call.path]) THEN st
    ELSE [st EXCEPT !.files = Append(@, call.path)]

\* The WalkFunc applied to a sequence of calls.
RECURSIVE ApplyCalls(_, _, _)
ApplyCalls(st, calls_, t) ==
    IF calls_ = <<>> THEN st
    ELSE ApplyCalls(WalkFunc(st, Head(calls_), t), Tail(calls_), t)

\* Files(): for _, path := range flag.Args() { filepath.Walk(path, ...) }.
RECURSIVE FilesFrom(_, _, _)
FilesFrom(st, roots, t) ==
    IF roots = <<>> THEN st
    ELSE FilesFrom(ApplyCalls(st, Walk(Head(roots), t), t), Tail(roots), t)
Files(roots, t) == FilesFrom([files |-> <<>>, diags |-> <<>>], roots, t)

InitFiles ==
    /\ HashAllIdle
    /\ CmpIdle
    /\ EqIdle
    /\ PollIdle
    /\ CkIdle
    /\ NoneHung
    /\ tree \in [Entries -> Kinds]
    /\ args \in SeqsUpTo(RootEntries, MaxRoots)
    /\ walkpc = "call"
    /\ walked = <<>>
    /\ diags = <<>>

CallFiles ==
    /\ walkpc = "call"
    /\ walked' = Files(args, tree).files
    /\ diags' = Files(args, tree).diags
    /\ walkpc' = "returned"
    /\ UNCHANGED <<tree, args, hashvars, cmpvars, eqvars, pollvars, ckvars, hung>>

NextFiles == CallFiles
SpecFiles == InitFiles /\ [][NextFiles]_vars

\* Entry n is reached by the descent from root r: it is r, or its parent is a
\* directory whose names can be read and that is reached from r.
RECURSIVE Under(_, _, _)
Under(n, r, t) ==
    \/ n = r
    \/ /\ ParentOf(n) # 0
       /\ t[ParentOf(n)] = "dir"
       /\ Under(ParentOf(n), r, t)
\* The number of arguments whose descent reaches n.
Visits(n) == Cardinality({k \in DOMAIN args : Under(n, args[k], tree)})

\* C15: Files returns a path once for every argument from which the descent
\* reaches it if it is a regular file, and never otherwise; it prints one
\* diagnostic for every reached entry on which Lstat or the reading of the
\* directory fails, and none otherwise; nothing below such an entry is
\* returned, and everything else is, whatever fails elsewhere.
C15_RegularFilesReached ==
    walkpc = "returned" =>
        \A n \in Entries :
            /\ Occurrences(walked, n) = (IF tree[n] = "file" THEN Visits(n) ELSE 0)
            /\ Occurrences(diags, n)
                 = (IF tree[n] \in {"nolstat", "dirnoread"} THEN Visits(n) ELSE 0)

\* The example: a root with three regular files, a subdirectory holding one
\* regular file and an entry that cannot be accessed gives four paths and
\* one diagnostic.
C15_Witness ==
    /\ walkpc = "returned"
    /\ args = <<1>>
    /\ tree[1] = "dir" /\ tree[5] = "dir"
    /\ \A n \in {2, 3, 4, 7} : tree[n] = "file"
    /\ tree[6] \in {"nolstat", "dirnoread"}
    /\ walked = <<2, 3, 4, 7>>
    /\ diags = <<6>>

====
